---- MODULE Spec2Model ----
(***************************************************************************)
(* Model of the Math-Expression-Parser: tokenize, parse, Expr::calc and    *)
(* the numeric part of the graph mode of main (src/src/main.rs), with the  *)
(* Lerp utility of src/src/lerp.rs.                                        *)
(*                                                                         *)
(* Characters are one-character strings, a text is a sequence of them.     *)
(* Slices and indices are 0-based as in the source; At and Slice convert.  *)
(* A finite f64 is modelled by the exact rational it stands for (n/d in    *)
(* lowest terms, d > 0); negative zero, the two infinities and NaN are     *)
(* kept apart and follow IEEE-754.  Rounding of long mantissas is not      *)
(* modelled.                                                               *)
(***************************************************************************)
EXTENDS Integers, Sequences, FiniteSets, TLC

VARIABLES
    pc,          \* position in main: which step runs next
    mode,        \* the subcommand: "calc" or "graph"
    built,       \* a hand-built token sequence that is rendered to text (round trip)
    expression,  \* the expression text handed to tokenize
    tokens,      \* the token sequence handed to parse
    parsed,      \* the Result of parse
    variables,   \* the bindings handed to calc
    value,       \* the Result of calc
    origin,      \* graph mode: -x
    width,       \* graph mode: -w
    points,      \* graph mode: the sampled results
    min,         \* graph mode: result of min_by(float_cmp)
    max,         \* graph mode: result of max_by(float_cmp)
    rows         \* graph mode: the dot rows (points remapped, floored, as u16)

vars == <<pc, mode, built, expression, tokens, parsed, variables, value,
          origin, width, points, min, max, rows>>

(***************************************************************************)
(* Bounds of the model.                                                    *)
(***************************************************************************)
MaxLen == 5          \* longest arbitrary token sequence handed to parse
MaxArithLen == 7     \* longest well-formed arithmetic token sequence
MaxNum == 4          \* largest Number token of the arithmetic sequences
MaxText == 4         \* longest arbitrary text handed to tokenize
MaxBuilt == 3        \* longest hand-built token sequence of the round trip
MaxGraphLen == 3     \* longest token sequence plotted in graph mode
NumSamples == 4      \* samples taken in graph mode (100 in the source)

None == <<>>
Some(x) == <<x>>

Ok(v) == [ok |-> TRUE, val |-> v]
Err(e) == [ok |-> FALSE, err |-> e]
Panicked == [ok |-> FALSE, err |-> [kind |-> "panic"]]

(***************************************************************************)
(* f64                                                                     *)
(***************************************************************************)
Abs(i) == IF i < 0 THEN -i ELSE i

RECURSIVE Gcd(_, _)
Gcd(a, b) == IF b = 0 THEN a ELSE Gcd(b, a % b)

\* the finite f64 n/d, d # 0, in lowest terms with a positive denominator
Fin(n, d) ==
    LET g == Gcd(Abs(n), Abs(d))
        s == IF d < 0 THEN -1 ELSE 1
    IN  [k |-> "fin", n |-> (s * n) \div g, d |-> (s * d) \div g]

F(i) == [k |-> "fin", n |-> i, d |-> 1]
NegZero == [k |-> "nzero", n |-> 0, d |-> 1]
PosInf == [k |-> "inf", n |-> 0, d |-> 1]
NegInf == [k |-> "ninf", n |-> 0, d |-> 1]
NaN == [k |-> "nan", n |-> 0, d |-> 1]

is_finite(x) == x.k \in {"fin", "nzero"}
IsNaN(x) == x.k = "nan"
IsInfinite(x) == x.k \in {"inf", "ninf"}
IsZero(x) == is_finite(x) /\ x.n = 0
SignBit(x) == (x.k = "fin" /\ x.n < 0) \/ x.k \in {"nzero", "ninf"}
SignedZero(neg) == IF neg THEN NegZero ELSE F(0)
SignedInf(neg) == IF neg THEN NegInf ELSE PosInf

F64Neg(x) ==
    CASE x.k = "nan" -> NaN
      [] x.k = "inf" -> NegInf
      [] x.k = "ninf" -> PosInf
      [] x.k = "nzero" -> F(0)
      [] OTHER -> IF x.n = 0 THEN NegZero ELSE Fin(-x.n, x.d)

F64Add(x, y) ==
    CASE IsNaN(x) \/ IsNaN(y) -> NaN
      [] IsInfinite(x) /\ IsInfinite(y) -> IF x.k = y.k THEN x ELSE NaN
      [] IsInfinite(x) -> x
      [] IsInfinite(y) -> y
      [] IsZero(x) /\ IsZero(y) -> SignedZero(SignBit(x) /\ SignBit(y))
      [] OTHER -> Fin(x.n * y.d + y.n * x.d, x.d * y.d)

F64Sub(x, y) == F64Add(x, F64Neg(y))

F64Mul(x, y) ==
    CASE IsNaN(x) \/ IsNaN(y) -> NaN
      [] (IsInfinite(x) /\ IsZero(y)) \/ (IsZero(x) /\ IsInfinite(y)) -> NaN
      [] IsInfinite(x) \/ IsInfinite(y) -> SignedInf(SignBit(x) # SignBit(y))
      [] IsZero(x) \/ IsZero(y) -> SignedZero(SignBit(x) # SignBit(y))
      [] OTHER -> Fin(x.n * y.n, x.d * y.d)

F64Div(x, y) ==
    CASE IsNaN(x) \/ IsNaN(y) -> NaN
      [] IsInfinite(x) /\ IsInfinite(y) -> NaN
      [] IsZero(x) /\ IsZero(y) -> NaN
      [] IsInfinite(x) \/ IsZero(y) -> SignedInf(SignBit(x) # SignBit(y))
      [] IsInfinite(y) \/ IsZero(x) -> SignedZero(SignBit(x) # SignBit(y))
      [] OTHER -> Fin(x.n * y.d, x.d * y.n)

F64Floor(x) == IF x.k = "fin" THEN F(x.n \div x.d) ELSE x

\* partial_cmp of two finite values
partial_cmp(x, y) ==
    LET l == x.n * y.d
        r == y.n * x.d
    IN  IF l < r THEN "Less" ELSE IF l > r THEN "Greater" ELSE "Equal"

U16Max == 65535

\* `as u16`: truncates toward zero, saturates, NaN becomes 0
AsU16(x) ==
    CASE x.k \in {"nan", "ninf", "nzero"} -> 0
      [] x.k = "inf" -> U16Max
      [] OTHER -> LET t == IF x.n < 0 THEN -((-x.n) \div x.d) ELSE x.n \div x.d
                  IN  IF t < 0 THEN 0 ELSE IF t > U16Max THEN U16Max ELSE t


(***************************************************************************)
(* OpType, Token, Expr                                                     *)
(***************************************************************************)
OpType == {"Plus", "Sub", "Mul", "Div"}

precedence(op) ==
    CASE op = "Plus" -> 1
      [] op = "Sub" -> 1
      [] op = "Mul" -> 2
      [] op = "Div" -> 2

\* Token (a String is the sequence of its characters): every token carries the four fields, the unused ones are blank
Number(v) == [t |-> "Number", v |-> v, op |-> "", id |-> <<>>]
Op(op) == [t |-> "Op", v |-> F(0), op |-> op, id |-> <<>>]
Identifier(id) == [t |-> "Identifier", v |-> F(0), op |-> "", id |-> id]
LeftParen == [t |-> "LeftParen", v |-> F(0), op |-> "", id |-> <<>>]
RightParen == [t |-> "RightParen", v |-> F(0), op |-> "", id |-> <<>>]

\* Expr
Value(v) == [e |-> "Value", v |-> v]
Variable(name) == [e |-> "Variable", name |-> name]
Operation(op, lhs, rhs) == [e |-> "Operation", op |-> op, lhs |-> lhs, rhs |-> rhs]
Function(arg, fun) == [e |-> "Function", arg |-> arg, fun |-> fun]

\* InvalidExpressionError
UknownFunction(id) == [kind |-> "UknownFunction", name |-> id]
UknownVariable(id) == [kind |-> "UknownVariable", name |-> id]
InvalidToken(found) == [kind |-> "InvalidToken", found |-> found]
NoMatchingToken(start, end) == [kind |-> "NoMatchingToken", start |-> start, end |-> end]
AmbiguousOperation(ts) == [kind |-> "AmbiguousOperation", tokens |-> ts]

\* the function table built in main: name -> the f64 method of that name
Cos == <<"c", "o", "s">>
Sin == <<"s", "i", "n">>
Tan == <<"t", "a", "n">>
Log2 == <<"l", "o", "g", "2">>
Ln == <<"l", "n">>
functions == [name \in {Cos, Sin, Tan, Log2, Ln} |-> name]

\* a float the model does not follow: the result of a transcendental
\* function away from the few arguments where it is exact
Opaque == [k |-> "opaque", n |-> 0, d |-> 1]

\* calling a FunType: the f64 methods, exact where the result is known
CallFun(fun, x) ==
    CASE IsNaN(x) -> NaN
      [] fun \in {Sin, Tan} /\ IsZero(x) -> x
      [] fun \in {Sin, Tan, Cos} /\ IsInfinite(x) -> NaN
      [] fun = Cos /\ IsZero(x) -> F(1)
      [] fun \in {Log2, Ln} /\ IsZero(x) -> NegInf
      [] fun \in {Log2, Ln} /\ SignBit(x) -> NaN
      [] fun \in {Log2, Ln} /\ x = PosInf -> PosInf
      [] fun \in {Log2, Ln} /\ x = F(1) -> F(0)
      [] fun = Log2 /\ x = F(2) -> F(1)
      [] fun = Log2 /\ x = F(4) -> F(2)
      [] OTHER -> Opaque

IsOpaque(x) == x.k = "opaque"

ApplyOp(op, lhs, rhs) ==
    IF IsOpaque(lhs) \/ IsOpaque(rhs) THEN Opaque
    ELSE CASE op = "Plus" -> F64Add(lhs, rhs)
           [] op = "Sub" -> F64Sub(lhs, rhs)
           [] op = "Mul" -> F64Mul(lhs, rhs)
           [] op = "Div" -> F64Div(lhs, rhs)

ApplyFun(fun, x) == IF IsOpaque(x) THEN Opaque ELSE CallFun(fun, x)

(***************************************************************************)
(* Expr::calc                                                              *)
(***************************************************************************)
\* variables.get(v), turned into the Result of the Variable arm
VarGet_OrZero(vs, name) ==
    IF name \in DOMAIN vs THEN Ok(vs[name]) ELSE Ok(F(0))
VarGet(vs, name) ==
    IF name \in DOMAIN vs THEN Ok(vs[name]) ELSE Err(UknownVariable(name))

RECURSIVE calc(_, _)
calc(self, vs) ==
    CASE self.e = "Value" -> Ok(self.v)
      [] self.e = "Variable" -> VarGet(vs, self.name)
      [] self.e = "Operation" ->
            LET lhs == calc(self.lhs, vs) IN
            IF ~lhs.ok THEN lhs
            ELSE LET rhs == calc(self.rhs, vs) IN
                 IF ~rhs.ok THEN rhs
                 ELSE Ok(ApplyOp(self.op, lhs.val, rhs.val))
      [] self.e = "Function" ->
            LET arg == calc(self.arg, vs) IN
            IF ~arg.ok THEN arg ELSE Ok(ApplyFun(self.fun, arg.val))

(***************************************************************************)
(* advance_to_matching_paren and parse                                     *)
(***************************************************************************)
At(ts, i) == ts[i + 1]                      \* tokens[i]
Slice(ts, a, b) == SubSeq(ts, a + 1, b)     \* tokens[a..b]
SliceInBounds(ts, a, b) == 0 <= a /\ a <= b /\ b <= Len(ts)

I32Max == 2147483647

\* the match of the scanning loop: scope after token t
ScopeStep(t, scope) ==
    CASE t.t = "LeftParen" -> scope + 1
      [] t.t = "RightParen" -> scope - 1
      [] OTHER -> scope

\* the for loop: i is the index of the item the iterator yields next
RECURSIVE AdvanceLoop(_, _, _, _)
AdvanceLoop(ts, i, scope, last_token) ==
    IF i >= Len(ts) THEN [i |-> i, scope |-> scope, last_token |-> last_token]
    ELSE LET t == At(ts, i)
             s2 == ScopeStep(t, scope)
         IN  IF s2 < 0 THEN [i |-> i + 1, scope |-> s2, last_token |-> Some(t)]
             ELSE AdvanceLoop(ts, i + 1, s2, Some(t))

\* what the loop's outcome is turned into
AdvanceResult_NoCheck(r) == Ok(r.i)
AdvanceResult(r) ==
    IF r.scope >= 0 THEN Err(NoMatchingToken(LeftParen, r.last_token))
    ELSE Ok(r.i)

\* for Iter and Skip<Iter>: Ok carries the position of the returned iterator
advance_to_matching_paren(ts, i) == AdvanceResult(AdvanceLoop(ts, i, 0, None))

\* for Enumerate<Iter>
advance_to_matching_paren_enumerate(ts, i) == AdvanceResult(AdvanceLoop(ts, i, 0, None))

\* a slice of length 1
ParseSingle(ts) ==
    CASE ts[1].t = "Number" -> Ok(Value(ts[1].v))
      [] ts[1].t = "Identifier" -> Ok(Variable(ts[1].id))
      [] OTHER -> Err(InvalidToken(Some(ts[1])))

\* `op.precedence() <= precedence`
SplitHere_Strict(p, best) == p < best
SplitHere(p, best) == p <= best

\* the while-let loop that looks for the operator to split at
RECURSIVE FindSplit(_, _, _, _)
FindSplit(ts, i, idx, prec) ==
    IF i >= Len(ts) THEN Ok([idx |-> idx, precedence |-> prec])
    ELSE LET t == At(ts, i) IN
         CASE t.t = "Op" ->
                 IF SplitHere(precedence(t.op), prec)
                 THEN FindSplit(ts, i + 1, i, precedence(t.op))
                 ELSE FindSplit(ts, i + 1, idx, prec)
           [] t.t = "LeftParen" ->
                 LET a == advance_to_matching_paren_enumerate(ts, i + 1) IN
                 IF ~a.ok THEN a ELSE FindSplit(ts, a.val, idx, prec)
           [] OTHER -> FindSplit(ts, i + 1, idx, prec)

\* ( it.next(), it.next(), it.last() ) matches ( Identifier, LeftParen, RightParen )
IsCallShape_NoLast(ts) ==
    /\ Len(ts) >= 3
    /\ ts[1].t = "Identifier"
    /\ ts[2].t = "LeftParen"
IsCallShape(ts) ==
    /\ Len(ts) >= 3
    /\ ts[1].t = "Identifier"
    /\ ts[2].t = "LeftParen"
    /\ ts[Len(ts)].t = "RightParen"

\* functions.get(id)
FunGet(fns, id) == IF id \in DOMAIN fns THEN Some(fns[id]) ELSE None

\* the bounds of the argument slice of a call, tokens[2..tokens.len()-1]
CallArgRange_Off(ts) == <<3, Len(ts) - 1>>
CallArgRange(ts) == <<2, Len(ts) - 1>>

\* the bounds of the stripped slice, tokens[1..tokens.len()-1]
StripRange(ts) == <<1, Len(ts) - 1>>

RECURSIVE parse(_, _)
\* parse of tokens[a..b]; an out-of-range slice panics
ParseSlice(ts, a, b, fns) ==
    IF SliceInBounds(ts, a, b) THEN parse(Slice(ts, a, b), fns) ELSE Panicked

parse(ts, fns) ==
    IF Len(ts) = 1 THEN ParseSingle(ts)
    ELSE
      LET startsParen == Len(ts) > 0 /\ ts[1].t = "LeftParen"
          strip == advance_to_matching_paren(ts, 1)
      IN
      IF startsParen /\ ~strip.ok THEN strip
      ELSE IF startsParen /\ strip.val >= Len(ts)
      THEN ParseSlice(ts, StripRange(ts)[1], StripRange(ts)[2], fns)
      ELSE
        LET found == FindSplit(ts, 0, 0, I32Max) IN
        IF ~found.ok THEN found
        ELSE IF found.val.precedence = I32Max
        THEN IF IsCallShape(ts)
             THEN LET fun == FunGet(fns, ts[1].id) IN
                  IF fun # None
                  THEN LET arg == ParseSlice(ts, CallArgRange(ts)[1], CallArgRange(ts)[2], fns) IN
                       IF ~arg.ok THEN arg ELSE Ok(Function(arg.val, fun[1]))
                  ELSE Err(UknownFunction(ts[1].id))
             ELSE Err(AmbiguousOperation(ts))
        ELSE LET idx == found.val.idx IN
             IF idx < Len(ts) /\ At(ts, idx).t = "Op"
             THEN LET lhs == ParseSlice(ts, 0, idx, fns) IN
                  IF ~lhs.ok THEN lhs
                  ELSE LET rhs == ParseSlice(ts, idx + 1, Len(ts), fns) IN
                       IF ~rhs.ok THEN rhs
                       ELSE Ok(Operation(At(ts, idx).op, lhs.val, rhs.val))
             ELSE Panicked

(***************************************************************************)
(* tokenize                                                                *)
(***************************************************************************)
DecDigits == <<"0", "1", "2", "3", "4", "5", "6", "7", "8", "9">>
LowerLetters == <<"a", "b", "c", "d", "e", "f", "g", "h", "i", "j", "k", "l", "m",
                  "n", "o", "p", "q", "r", "s", "t", "u", "v", "w", "x", "y", "z">>
UpperLetters == <<"A", "B", "C", "D", "E", "F", "G", "H", "I", "J", "K", "L", "M",
                  "N", "O", "P", "Q", "R", "S", "T", "U", "V", "W", "X", "Y", "Z">>

Range(f) == {f[i] : i \in DOMAIN f}
IndexOf(seq, c) == CHOOSE i \in DOMAIN seq : seq[i] = c

\* char::to_digit
to_digit(c, radix) ==
    LET d == CASE c \in Range(DecDigits) -> IndexOf(DecDigits, c) - 1
               [] c \in Range(LowerLetters) -> IndexOf(LowerLetters, c) + 9
               [] c \in Range(UpperLetters) -> IndexOf(UpperLetters, c) + 9
               [] OTHER -> radix
    IN  IF d < radix THEN Some(d) ELSE None

is_digit(c, radix) == to_digit(c, radix) # None
is_ascii_alphabetic(c) == c \in Range(LowerLetters) \cup Range(UpperLetters)

\* chars.peek() when the next character is at index i
Peek(str, i) == IF i < Len(str) THEN Some(At(str, i)) ELSE None

\* the radix of a number whose first digit is c, given chars.peek()
Radix_LegacyOctal(c, next) ==
    IF c = "0"
    THEN CASE next \in {Some("x"), Some("X")} -> 16
           [] next \in {Some("o"), Some("O")} -> 8
           [] next \in {Some("b"), Some("B")} -> 2
           [] OTHER -> 8
    ELSE 10
Radix(c, next) ==
    IF c = "0"
    THEN CASE next \in {Some("x"), Some("X")} -> 16
           [] next \in {Some("o"), Some("O")} -> 8
           [] next \in {Some("b"), Some("B")} -> 2
           [] OTHER -> 10
    ELSE 10

\* the inner while-let loop: consume the digits of the active radix
RECURSIVE Accumulate(_, _, _, _)
Accumulate(str, i, radix, sum) ==
    IF i < Len(str) /\ is_digit(At(str, i), radix)
    THEN Accumulate(str, i + 1, radix,
                    F64Add(F64Mul(sum, F(radix)), F(to_digit(At(str, i), radix)[1])))
    ELSE [i |-> i, sum |-> sum]

\* the identifier loop: consume ascii letters
RECURSIVE IdentLoop(_, _, _)
IdentLoop(str, i, id) ==
    IF i < Len(str) /\ is_ascii_alphabetic(At(str, i))
    THEN IdentLoop(str, i + 1, Append(id, At(str, i)))
    ELSE [i |-> i, id |-> id]

\* the single-character tokens of the match on c
CharToken_MinusAsPlus(c) ==
    CASE c = "+" -> Some(Op("Plus"))
      [] c = "-" -> Some(Op("Plus"))
      [] c = "*" -> Some(Op("Mul"))
      [] c = "/" -> Some(Op("Div"))
      [] c = "(" -> Some(LeftParen)
      [] c = ")" -> Some(RightParen)
      [] OTHER -> None
CharToken(c) ==
    CASE c = "+" -> Some(Op("Plus"))
      [] c = "-" -> Some(Op("Sub"))
      [] c = "*" -> Some(Op("Mul"))
      [] c = "/" -> Some(Op("Div"))
      [] c = "(" -> Some(LeftParen)
      [] c = ")" -> Some(RightParen)
      [] OTHER -> None

\* the outer while-let loop; i is the index of the character chars.next() yields
RECURSIVE TokenizeLoop(_, _, _)
TokenizeLoop(str, i, toks) ==
    IF i >= Len(str) THEN Ok(toks)
    ELSE LET c == At(str, i) IN
         IF is_digit(c, 10)
         THEN LET radix == Radix(c, Peek(str, i + 1))
                  from == IF c = "0" /\ radix # 10 THEN i + 2 ELSE i + 1
                  sum == IF c = "0" THEN F(0) ELSE F(to_digit(c, radix)[1])
                  r == Accumulate(str, from, radix, sum)
              IN  TokenizeLoop(str, r.i, Append(toks, Number(r.sum)))
         ELSE IF CharToken(c) # None
         THEN TokenizeLoop(str, i + 1, Append(toks, CharToken(c)[1]))
         ELSE IF is_ascii_alphabetic(c)
         THEN LET r == IdentLoop(str, i + 1, <<c>>)
              IN  TokenizeLoop(str, r.i, Append(toks, Identifier(r.id)))
         ELSE TokenizeLoop(str, i + 1, toks)

tokenize(str) == TokenizeLoop(str, 0, <<>>)

(***************************************************************************)
(* Lerp (src/src/lerp.rs) and the numeric part of graph mode               *)
(***************************************************************************)
lerp(self, other, t) == F64Add(self, F64Mul(F64Sub(other, self), t))
inv_lerp(self, a, b) == F64Div(F64Sub(self, a), F64Sub(b, a))
lerp_map(self, a1, b1, a2, b2) == lerp(a2, b2, inv_lerp(self, a1, b1))

\* the closure float_cmp
float_cmp(x, y) ==
    IF is_finite(x) /\ is_finite(y) THEN partial_cmp(x, y) ELSE "Equal"

\* Iterator::min_by: reduce, keeping the earlier element unless it compares Greater
RECURSIVE MinFold(_, _, _)
MinFold(ps, i, acc) ==
    IF i > Len(ps) THEN acc
    ELSE MinFold(ps, i + 1, IF float_cmp(acc, ps[i]) = "Greater" THEN ps[i] ELSE acc)
min_by(ps) == MinFold(ps, 2, ps[1])

\* Iterator::max_by: reduce, keeping the later element unless the earlier compares Greater
RECURSIVE MaxFold(_, _, _)
MaxFold(ps, i, acc) ==
    IF i > Len(ps) THEN acc
    ELSE MaxFold(ps, i + 1, IF float_cmp(acc, ps[i]) = "Greater" THEN acc ELSE ps[i])
max_by(ps) == MaxFold(ps, 2, ps[1])

DotRows == 90

\* x.lerp_map(min, max, 0.0, 90.0).floor() as u16
DotRow(x, lo, hi) == AsU16(F64Floor(lerp_map(x, lo, hi, F(0), F(DotRows))))

X == <<"x">>

\* the x of sample i: i.lerp_map(0.0, 100.0, origin, right_bound)
SampleX(i, o, w) == lerp_map(F(i), F(0), F(NumSamples), o, F64Add(o, w))

\* the result of sample i: insert x, then parsed.calc(&variables)
SampleAt(expr, i, o, w) == calc(expr, [name \in {X} |-> SampleX(i, o, w)])

(***************************************************************************)
(* Inputs                                                                  *)
(***************************************************************************)
SeqsUpTo(A, n) == UNION {[1..k -> A] : k \in 0..n}

\* tokens of the arbitrary sequences handed to parse
ParseTokens == {Number(F(1)), Op("Plus"), Op("Mul"), LeftParen, RightParen,
                Identifier(X), Identifier(Sin)}

\* bindings handed to calc
Bindings == UNION {[D -> {F(4)}] : D \in SUBSET {X, Sin}}

\* Well-formed arithmetic token sequences, E ::= Number | ( E ) | E Op E,
\* built as sequences of codes: i in 1..MaxNum is Number(i), the others are
\* the four operators and the two parentheses
CodePlus == MaxNum + 1
CodeSub == MaxNum + 2
CodeMul == MaxNum + 3
CodeDiv == MaxNum + 4
CodeLeft == MaxNum + 5
CodeRight == MaxNum + 6

Decode(c) ==
    CASE c = CodePlus -> Op("Plus")
      [] c = CodeSub -> Op("Sub")
      [] c = CodeMul -> Op("Mul")
      [] c = CodeDiv -> Op("Div")
      [] c = CodeLeft -> LeftParen
      [] c = CodeRight -> RightParen
      [] OTHER -> Number(F(c))

DecodeSeq(cs) == [i \in 1..Len(cs) |-> Decode(cs[i])]

WellFormedStep(prev, n) ==
    IF n = 1 THEN {<<i>> : i \in 1..MaxNum}
    ELSE (IF n = 2 THEN {}
          ELSE {<<CodeLeft>> \o e \o <<CodeRight>> : e \in prev[n - 2]})
         \cup UNION {{a \o <<o>> \o b :
                         a \in prev[k], b \in prev[n - 1 - k], o \in CodePlus..CodeDiv}
                     : k \in 1..(n - 2)}

\* WellFormedUpTo(n)[k] is the set of the coded sequences of exactly k <= n tokens
RECURSIVE WellFormedUpTo(_)
WellFormedUpTo(n) ==
    IF n = 0 THEN <<>>
    ELSE LET prev == WellFormedUpTo(n - 1)
         IN  Append(prev, WellFormedStep(prev, n))

ArithCodes(len) == LET w == WellFormedUpTo(len) IN UNION {w[n] : n \in 1..len}

\* characters of the arbitrary texts handed to tokenize
TextChars == {"0", "1", "7", "9", "A", "x", "o", "b", "g", " "}

\* tokens of the hand-built sequences that are rendered and tokenized again
BuiltTokens == {Number(F(0)), Number(F(7)), Number(F(26)), Number(F(101)),
                Op("Plus"), Op("Sub"), Op("Mul"), Op("Div"), LeftParen, RightParen,
                Identifier(X), Identifier(<<"b">>), Identifier(<<"O", "x">>)}

\* tokens of the expressions plotted in graph mode
GraphTokens == {Identifier(X), Number(F(1)), Number(F(2)),
                Op("Plus"), Op("Sub"), Op("Mul"), Op("Div")}
GraphOrigins == {F(-1), F(0), F(1)}
GraphWidths == {F(1), F(NumSamples)}

(***************************************************************************)
(* Rendering a hand-built token sequence to text                           *)
(***************************************************************************)
RECURSIVE DecimalOf(_)
DecimalOf(n) ==
    IF n < 10 THEN <<DecDigits[n + 1]>>
    ELSE DecimalOf(n \div 10) \o <<DecDigits[(n % 10) + 1]>>

RenderToken(t) ==
    CASE t.t = "Number" -> DecimalOf(t.v.n)
      [] t.t = "Op" -> (CASE t.op = "Plus" -> <<"+">>
                          [] t.op = "Sub" -> <<"-">>
                          [] t.op = "Mul" -> <<"*">>
                          [] t.op = "Div" -> <<"/">>)
      [] t.t = "Identifier" -> t.id
      [] t.t = "LeftParen" -> <<"(">>
      [] t.t = "RightParen" -> <<")">>

RECURSIVE RenderTokens(_)
RenderTokens(ts) ==
    IF ts = <<>> THEN <<>>
    ELSE IF Len(ts) = 1 THEN RenderToken(ts[1])
    ELSE RenderToken(ts[1]) \o <<" ">> \o RenderTokens(Tail(ts))

(***************************************************************************)
(* The steps of main                                                       *)
(***************************************************************************)
\* a test renders its hand-built tokens to the expression text
Render ==
    /\ pc = "render"
    /\ expression' = RenderTokens(built)
    /\ pc' = "tokenize"
    /\ UNCHANGED <<mode, built, tokens, parsed, variables, value,
                   origin, width, points, min, max, rows>>

\* let tokens = tokenize(expression)?
Tokenize ==
    /\ pc = "tokenize"
    /\ LET r == tokenize(expression) IN
       /\ tokens' = r.val
       /\ pc' = "parse"
    /\ UNCHANGED <<mode, built, expression, parsed, variables, value,
                   origin, width, points, min, max, rows>>

\* let parsed = parse(&tokens, &functions).unwrap()
Parse ==
    /\ pc = "parse"
    /\ parsed' = parse(tokens, functions)
    /\ pc' = IF ~parsed'.ok THEN "panic"
             ELSE IF mode = "calc" THEN "bind" ELSE "sample"
    /\ UNCHANGED <<mode, built, expression, tokens, variables, value,
                   origin, width, points, min, max, rows>>

\* the bindings calc is called with: HashMap::new() in main, here any map
\* of Bindings, calc being checked for every bindings map
Bind ==
    /\ pc = "bind"
    /\ \E b \in Bindings : variables' = b
    /\ pc' = "calc"
    /\ UNCHANGED <<mode, built, expression, tokens, parsed, value,
                   origin, width, points, min, max, rows>>

\* parsed.calc(&variables).unwrap()
Calc ==
    /\ pc = "calc"
    /\ value' = calc(parsed.val, variables)
    /\ pc' = IF value'.ok THEN "done" ELSE "panic"
    /\ UNCHANGED <<mode, built, expression, tokens, parsed, variables,
                   origin, width, points, min, max, rows>>

\* the NumSamples evaluations of graph mode; the first failure panics
Sample ==
    /\ pc = "sample"
    /\ LET rs == [i \in 1..NumSamples |-> SampleAt(parsed.val, i - 1, origin, width)]
           bad == {i \in 1..NumSamples : ~rs[i].ok}
           first == CHOOSE i \in bad : \A j \in bad : i <= j
       IN  IF bad = {}
           THEN /\ points' = [i \in 1..NumSamples |-> rs[i].val]
                /\ variables' = [name \in {X} |-> SampleX(NumSamples - 1, origin, width)]
                /\ value' = rs[NumSamples]
                /\ pc' = "reduce"
           ELSE /\ points' = points
                /\ variables' = [name \in {X} |-> SampleX(first - 1, origin, width)]
                /\ value' = rs[first]
                /\ pc' = "panic"
    /\ UNCHANGED <<mode, built, expression, tokens, parsed,
                   origin, width, min, max, rows>>

\* ( min, max ) = ( min_by(float_cmp), max_by(float_cmp) )
Reduce ==
    /\ pc = "reduce"
    /\ min' = min_by(points)
    /\ max' = max_by(points)
    /\ pc' = "remap"
    /\ UNCHANGED <<mode, built, expression, tokens, parsed, variables, value,
                   origin, width, points, rows>>

\* the dot rows
Remap ==
    /\ pc = "remap"
    /\ rows' = [i \in 1..NumSamples |-> DotRow(points[i], min, max)]
    /\ pc' = "done"
    /\ UNCHANGED <<mode, built, expression, tokens, parsed, variables, value,
                   origin, width, points, min, max>>

(***************************************************************************)
(* Specifications                                                          *)
(***************************************************************************)
\* parse and calc on arbitrary token sequences and bindings
Init ==
    /\ pc = "parse" /\ mode = "calc"
    /\ tokens \in SeqsUpTo(ParseTokens, MaxLen)
    /\ built = None /\ expression = None /\ parsed = None
    /\ variables = None /\ value = None /\ origin = None /\ width = None
    /\ points = None /\ min = None /\ max = None /\ rows = None
Next == Parse \/ Bind \/ Calc
Spec == Init /\ [][Next]_vars

\* parse and calc on well-formed arithmetic
InitArith ==
    /\ pc = "parse" /\ mode = "calc"
    /\ \E cs \in ArithCodes(MaxArithLen) : tokens = DecodeSeq(cs)
    /\ built = None /\ expression = None /\ parsed = None
    /\ variables = None /\ value = None /\ origin = None /\ width = None
    /\ points = None /\ min = None /\ max = None /\ rows = None
NextArith == Parse \/ Bind \/ Calc
SpecArith == InitArith /\ [][NextArith]_vars

\* tokenize on arbitrary texts and on rendered token sequences
InitLex ==
    /\ mode = "calc"
    /\ \/ pc = "tokenize" /\ expression \in SeqsUpTo(TextChars, MaxText) /\ built = None
       \/ pc = "render" /\ built \in SeqsUpTo(BuiltTokens, MaxBuilt) /\ expression = None
    /\ tokens = None /\ parsed = None
    /\ variables = None /\ value = None /\ origin = None /\ width = None
    /\ points = None /\ min = None /\ max = None /\ rows = None
NextLex == Render \/ Tokenize
SpecLex == InitLex /\ [][NextLex]_vars

\* graph mode
InitGraph ==
    /\ pc = "parse" /\ mode = "graph"
    /\ tokens \in SeqsUpTo(GraphTokens, MaxGraphLen)
    /\ origin \in GraphOrigins /\ width \in GraphWidths
    /\ variables = [name \in {X} |-> F(0)]
    /\ built = None /\ expression = None /\ parsed = None /\ value = None
    /\ points = None /\ min = None /\ max = None /\ rows = None
NextGraph == Parse \/ Sample \/ Reduce \/ Remap
SpecGraph == InitGraph /\ [][NextGraph]_vars

(***************************************************************************)
(* Properties                                                              *)
(***************************************************************************)
N(i) == Number(F(i))
Parsed == pc # "parse" /\ pc # "tokenize" /\ pc # "render"

\* --- standard arithmetic on a well-formed token sequence (1-based positions):
\* a left-to-right evaluation over the integers, * and / before + and -;
\* def says that every quotient met was exact
ExactDiv(a, b) == b # 0 /\ Abs(a) % Abs(b) = 0
Quot(a, b) ==
    IF ~ExactDiv(a, b) THEN 0
    ELSE IF (a < 0) # (b < 0) THEN -(Abs(a) \div Abs(b)) ELSE Abs(a) \div Abs(b)

RECURSIVE RefExpr(_, _), RefExprTail(_, _), RefTerm(_, _), RefTermTail(_, _), RefAtom(_, _)
RefAtom(ts, i) ==
    IF ts[i].t = "Number" THEN [v |-> ts[i].v.n, def |-> TRUE, i |-> i + 1]
    ELSE LET r == RefExpr(ts, i + 1) IN [r EXCEPT !.i = r.i + 1]
RefTermTail(ts, acc) ==
    IF acc.i <= Len(ts) /\ ts[acc.i].t = "Op" /\ ts[acc.i].op \in {"Mul", "Div"}
    THEN LET f == RefAtom(ts, acc.i + 1)
             mul == ts[acc.i].op = "Mul"
         IN  RefTermTail(ts, [v |-> IF mul THEN acc.v * f.v ELSE Quot(acc.v, f.v),
                              def |-> acc.def /\ f.def /\ (mul \/ ExactDiv(acc.v, f.v)),
                              i |-> f.i])
    ELSE acc
RefTerm(ts, i) == RefTermTail(ts, RefAtom(ts, i))
RefExprTail(ts, acc) ==
    IF acc.i <= Len(ts) /\ ts[acc.i].t = "Op" /\ ts[acc.i].op \in {"Plus", "Sub"}
    THEN LET f == RefTerm(ts, acc.i + 1)
         IN  RefExprTail(ts, [v |-> IF ts[acc.i].op = "Plus" THEN acc.v + f.v ELSE acc.v - f.v,
                              def |-> acc.def /\ f.def,
                              i |-> f.i])
    ELSE acc
RefExpr(ts, i) == RefExprTail(ts, RefTerm(ts, i))
Standard(ts) == RefExpr(ts, 1)

\* C1: parse followed by calc gives every well-formed arithmetic token
\* sequence its value under standard arithmetic (precedence of * and / over
\* + and -, left associativity, parenthesised groups as units), whenever
\* all its quotients are exact; and parse and calc succeed on every one.
C1_StandardArithmetic ==
    /\ pc # "panic"
    /\ pc = "done" =>
          LET ref == Standard(tokens) IN
          /\ ref.i = Len(tokens) + 1
          /\ ref.def => value = Ok(F(ref.v))

C1_Witness ==
    /\ pc = "done"
    /\ tokens = <<LeftParen, N(2), Op("Plus"), N(3), RightParen, Op("Mul"), N(4)>>
    /\ value = Ok(F(20))

\* --- parentheses (1-based positions)
Count(ts, a, b, kind) == Cardinality({m \in a..b : ts[m].t = kind})
Balance(ts, a, b) == Count(ts, a, b, "LeftParen") - Count(ts, a, b, "RightParen")
\* the token at j closes the LeftParen at i
MatchAt(ts, i, j) ==
    /\ i < j /\ ts[i].t = "LeftParen"
    /\ Balance(ts, i + 1, j) = -1
    /\ \A m \in (i + 1)..(j - 1) : Balance(ts, i + 1, m) >= 0
Unmatched(ts, i) ==
    ts[i].t = "LeftParen" /\ \A j \in (i + 1)..Len(ts) : Balance(ts, i + 1, j) >= 0
HasUnmatchedLeft(ts) == \E i \in 1..Len(ts) : Unmatched(ts, i)
FailsWith(kind) == ~parsed.ok /\ parsed.err.kind = kind

\* C2 as stated: a token sequence with a LeftParen that has no matching
\* RightParen makes parse fail with NoMatchingToken.
C2_Original ==
    (Parsed /\ HasUnmatchedLeft(tokens)) => FailsWith("NoMatchingToken")

\* C2 as amended: a token sequence of more than one token with a LeftParen
\* that has no matching RightParen makes parse fail with NoMatchingToken; the
\* one-token sequence [LeftParen] fails with InvalidToken carrying that token.
C2_UnmatchedLeftParen ==
    (Parsed /\ HasUnmatchedLeft(tokens)) =>
        IF Len(tokens) = 1
        THEN parsed = Err(InvalidToken(Some(LeftParen)))
        ELSE FailsWith("NoMatchingToken") /\ parsed.err.start = LeftParen

C2_Witness ==
    /\ pc = "panic"
    /\ tokens = <<LeftParen, N(1), Op("Plus"), N(1)>>
    /\ parsed = Err(NoMatchingToken(LeftParen, Some(N(1))))

\* --- the function call stage
Enclosed(ts, i) == \E a \in 1..(i - 1), b \in (i + 1)..Len(ts) : MatchAt(ts, a, b)
NoOpOutsideParens(ts) == \A i \in 1..Len(ts) : ts[i].t = "Op" => Enclosed(ts, i)
CallShaped(ts) ==
    /\ Len(ts) >= 3 /\ ts[1].t = "Identifier" /\ ts[2].t = "LeftParen"
    /\ ts[Len(ts)].t = "RightParen"
Inner(ts) == SubSeq(ts, 3, Len(ts) - 1)
CallOutcome(ts, res) ==
    IF CallShaped(ts)
    THEN IF ts[1].id \notin DOMAIN functions
         THEN res = Err(UknownFunction(ts[1].id))
         ELSE LET arg == parse(Inner(ts), functions) IN
              IF arg.ok THEN res = Ok(Function(arg.val, functions[ts[1].id]))
              ELSE res = arg
    ELSE res = Err(AmbiguousOperation(ts))

\* C3 as stated: a slice of more than one token with no operator outside
\* parentheses is a call when it has the shape Identifier ( inner ), failing
\* with UnknownFunction for an unknown identifier, and fails with
\* AmbiguousOperation carrying the slice otherwise.
C3_Original ==
    (Parsed /\ Len(tokens) > 1 /\ NoOpOutsideParens(tokens)) => CallOutcome(tokens, parsed)

\* C3 as amended: the same, for the slices that reach the call stage: those
\* in which every LeftParen has its matching RightParen and which are not one
\* parenthesised group (a first LeftParen closed by the last token).
C3_CallStage ==
    (/\ Parsed /\ Len(tokens) > 1 /\ NoOpOutsideParens(tokens)
     /\ ~HasUnmatchedLeft(tokens)
     /\ ~MatchAt(tokens, 1, Len(tokens)))
    => CallOutcome(tokens, parsed)

C3_Witness ==
    /\ pc = "panic"
    /\ tokens = <<Identifier(X), LeftParen, N(1), RightParen>>
    /\ parsed = Err(UknownFunction(X))

\* --- calc
\* the names of the Variable nodes, in left-to-right depth-first order
RECURSIVE VariablesOf(_)
VariablesOf(e) ==
    CASE e.e = "Value" -> <<>>
      [] e.e = "Variable" -> <<e.name>>
      [] e.e = "Operation" -> VariablesOf(e.lhs) \o VariablesOf(e.rhs)
      [] e.e = "Function" -> VariablesOf(e.arg)

UnboundOf(e, vs) == SelectSeq(VariablesOf(e), LAMBDA name : name \notin DOMAIN vs)
IsNumber(x) == x.k \in {"fin", "nzero", "inf", "ninf", "nan", "opaque"}

\* C4: calc returns a number if and only if every Variable of the tree is
\* bound, and otherwise UnknownVariable naming the first unbound variable in
\* left-to-right depth-first order; the call leaves the tree and the bindings
\* as they were.
C4_CalcUnknownVariable ==
    [][pc = "calc" =>
          /\ parsed' = parsed
          /\ variables' = variables
          /\ LET unbound == UnboundOf(parsed.val, variables) IN
             IF unbound = <<>>
             THEN value'.ok /\ IsNumber(value'.val)
             ELSE value' = Err(UknownVariable(unbound[1]))]_vars

C4_Witness ==
    /\ pc = "panic"
    /\ tokens = <<Identifier(Sin), Op("Plus"), Identifier(X)>>
    /\ variables = [name \in {X} |-> F(4)]
    /\ value = Err(UknownVariable(Sin))

\* --- numeric literals (1-based positions)
HexValue(c) ==
    CASE c = "0" -> 0 [] c = "1" -> 1 [] c = "2" -> 2 [] c = "3" -> 3 [] c = "4" -> 4
      [] c = "5" -> 5 [] c = "6" -> 6 [] c = "7" -> 7 [] c = "8" -> 8 [] c = "9" -> 9
      [] c \in {"a", "A"} -> 10 [] c \in {"b", "B"} -> 11 [] c \in {"c", "C"} -> 12
      [] c \in {"d", "D"} -> 13 [] c \in {"e", "E"} -> 14 [] c \in {"f", "F"} -> 15
      [] OTHER -> 16
DigitOf(c, radix) == HexValue(c) < radix
PrefixRadix(c) ==
    CASE c \in {"x", "X"} -> 16
      [] c \in {"o", "O"} -> 8
      [] c \in {"b", "B"} -> 2
      [] OTHER -> 0
\* the literal a text starts with: its radix, its first and last digit
HasPrefix(txt) ==
    /\ Len(txt) >= 3 /\ txt[1] = "0" /\ PrefixRadix(txt[2]) # 0
    /\ DigitOf(txt[3], PrefixRadix(txt[2]))
LiteralRadix(txt) == IF HasPrefix(txt) THEN PrefixRadix(txt[2]) ELSE 10
LiteralFirst(txt) == IF HasPrefix(txt) THEN 3 ELSE 1
LiteralLast(txt) ==
    CHOOSE j \in LiteralFirst(txt)..Len(txt) :
        /\ \A m \in LiteralFirst(txt)..j : DigitOf(txt[m], LiteralRadix(txt))
        /\ j < Len(txt) => ~DigitOf(txt[j + 1], LiteralRadix(txt))
StartsWithLiteral(txt) == Len(txt) >= 1 /\ DigitOf(txt[1], 10)
RECURSIVE Power(_, _)
Power(b, e) == IF e = 0 THEN 1 ELSE b * Power(b, e - 1)
RECURSIVE SumOver(_, _, _, _)
SumOver(txt, m, last, radix) ==
    IF m > last THEN 0
    ELSE HexValue(txt[m]) * Power(radix, last - m) + SumOver(txt, m + 1, last, radix)
LiteralValue(txt) == SumOver(txt, LiteralFirst(txt), LiteralLast(txt), LiteralRadix(txt))

\* C5: a text that starts with a numeric literal (0x, 0o or 0b and one or more
\* digits of radix 16, 8 or 2; otherwise a run of decimal digits, leading
\* zeros included) gives as first token the Number with the value of the
\* digits in that radix, the literal ending at the first character that is
\* not such a digit; a text that is one literal gives exactly that token.
C5_RadixLiteral ==
    (pc = "parse" /\ StartsWithLiteral(expression)) =>
        /\ Len(tokens) >= 1
        /\ tokens[1] = N(LiteralValue(expression))
        /\ LiteralLast(expression) = Len(expression) => Len(tokens) = 1

C5_Witness ==
    /\ pc = "parse"
    /\ expression = <<"0", "x", "1", "A">>
    /\ tokens = <<N(26)>>

\* C8: rendering a hand-built token sequence to text, the tokens separated
\* by a space and the numbers in decimal, and tokenizing the text gives the
\* sequence back.
C8_RoundTrip ==
    (pc = "parse" /\ expression = RenderTokens(built)) => tokens = built

C8_Witness ==
    /\ pc = "parse"
    /\ built = <<N(0), Identifier(<<"O", "x">>), N(26)>>
    /\ expression = <<"0", " ", "O", "x", " ", "2", "6">>
    /\ tokens = built

\* --- totality of parse
ParseErrorKinds == {"UknownFunction", "InvalidToken", "NoMatchingToken", "AmbiguousOperation"}

\* C9: parse returns an Expr or one of its four errors on every token
\* sequence: it never reaches unreachable!() and never slices out of range.
C9_ParseTotal ==
    Parsed => /\ parsed # Panicked
              /\ parsed.ok \/ parsed.err.kind \in ParseErrorKinds

C9_Witness ==
    /\ pc = "panic"
    /\ tokens = <<Identifier(Sin), LeftParen, RightParen>>
    /\ parsed = Err(AmbiguousOperation(<<>>))

\* --- the grammar of the accepted sequences
RECURSIVE Derivable(_)
Derivable(ts) ==
    \/ Len(ts) = 1 /\ ts[1].t \in {"Number", "Identifier"}
    \/ /\ Len(ts) >= 3 /\ ts[1].t = "LeftParen" /\ ts[Len(ts)].t = "RightParen"
       /\ Derivable(SubSeq(ts, 2, Len(ts) - 1))
    \/ /\ Len(ts) >= 4 /\ ts[1].t = "Identifier" /\ ts[2].t = "LeftParen"
       /\ ts[Len(ts)].t = "RightParen"
       /\ Derivable(SubSeq(ts, 3, Len(ts) - 1))
    \/ \E k \in 2..(Len(ts) - 1) :
          /\ ts[k].t = "Op"
          /\ Derivable(SubSeq(ts, 1, k - 1))
          /\ Derivable(SubSeq(ts, k + 1, Len(ts)))

Balanced(ts) ==
    /\ Balance(ts, 1, Len(ts)) = 0
    /\ \A m \in 1..Len(ts) : Balance(ts, 1, m) >= 0

\* an operand can end before an operator, and can start after one
EndsOperand(t) == t.t \in {"Number", "Identifier", "RightParen"}
StartsOperand(t) == t.t \in {"Number", "Identifier", "LeftParen"}
OperatorsHaveOperands(ts) ==
    \A i \in 1..Len(ts) : ts[i].t = "Op" =>
        /\ 1 < i /\ i < Len(ts)
        /\ EndsOperand(ts[i - 1]) /\ StartsOperand(ts[i + 1])

\* C10: a token sequence for which parse returns an Expr is derivable from
\* E ::= Number | Identifier | ( E ) | E Op E | Identifier ( E ): it is not
\* empty, its parentheses are balanced and every operator has an operand on
\* both sides.
C10_AcceptedAreGrammatical ==
    (Parsed /\ parsed.ok) =>
        /\ tokens # <<>>
        /\ Derivable(tokens)
        /\ Balanced(tokens)
        /\ OperatorsHaveOperands(tokens)

C10_Witness ==
    /\ pc = "bind"
    /\ tokens = <<LeftParen, N(1), RightParen, Op("Mul"), Identifier(X)>>
    /\ parsed = Ok(Operation("Mul", Value(F(1)), Variable(X)))

\* --- graph mode
Sampled == pc \in {"remap", "done"} /\ mode = "graph"
FiniteSamples == {i \in 1..NumSamples : is_finite(points[i])}
LeastOf(x) == \A i \in FiniteSamples : partial_cmp(x, points[i]) # "Greater"
GreatestOf(x) == \A i \in FiniteSamples : partial_cmp(x, points[i]) # "Less"

\* C6: when at least one sample is finite, min and max are the smallest and
\* the largest of the finite samples, wherever the other samples are.
C6_MinMaxOfFinite ==
    (Sampled /\ FiniteSamples # {}) =>
        /\ is_finite(min) /\ LeastOf(min)
        /\ is_finite(max) /\ GreatestOf(max)

\* C7: when the samples are all finite and not all equal, there is one dot
\* row per sample and every dot row r has 0 <= r < 90, so that r / 3 is one
\* of the 30 plot rows.
PlotRows == 30
C7_DotRowsInRange ==
    (/\ pc = "done" /\ mode = "graph"
     /\ FiniteSamples = 1..NumSamples
     /\ \E i, j \in 1..NumSamples : partial_cmp(points[i], points[j]) # "Equal")
    => /\ Len(rows) = NumSamples
       /\ \A i \in 1..NumSamples :
             /\ 0 <= rows[i] /\ rows[i] < DotRows
             /\ rows[i] \div 3 \in 0..(PlotRows - 1)

====
